---------------------------- MODULE Spec2Model ----------------------------
(***************************************************************************)
(* WFDE5-To-SHETRAN: a script that clips gridded hourly precipitation      *)
(* files to a bounding box, flattens each clipped grid to a table with one *)
(* column per cell, and merges the tables to one daily table.              *)
(*                                                                         *)
(* Units of the model.                                                     *)
(*   coordinates   integers (grid steps); the resolver only compares       *)
(*                 distances, so the scale is immaterial.                  *)
(*   raw Rainf     integers, in units of 1/RawScale kg m-2 s-1.            *)
(*   table values  integers, in thousandths of a millimetre, so that the   *)
(*                 repair value 0.001 is the integer 1.                    *)
(*   timestamps    the calendar timestamp "h hours after 1900-01-01        *)
(*                 00:00:00" is the integer h; its calendar day is         *)
(*                 h \div HoursPerDay.                                     *)
(***************************************************************************)
EXTENDS Integers, Sequences, FiniteSets, TLC

(***************************************************************************)
(* Bounds of the model.                                                    *)
(***************************************************************************)
MaxLen == 3        \* longest coordinate array
MaxCoord == 2      \* coordinate values and box limits are 0..MaxCoord
MaxIdx == 3        \* index-window bounds handed to the clipper are 0..MaxIdx
MaxT == 2          \* most time steps of one source file
MaxFiles == 3      \* most files (periods) of one batch
MaxOff == 3        \* a file's first raw time is FirstStart + 0..MaxOff
MaxCells == 2      \* columns of the tables the merger is handed directly

(***************************************************************************)
(* Program constants.                                                      *)
(***************************************************************************)
SecsPerHour == 60 ^ 2
KgPerCubicM == 10 ^ 3
MmPerMetre == 1000
\* The script computes SecsPerHour / KgPerCubicM * MmPerMetre in floating
\* point (3.6 * 1000); the exact value of that expression is 3600.
UnitConversion == (SecsPerHour * MmPerMetre) \div KgPerCubicM
HoursPerDay == 24
\* pd.date_range('1900-01-01 00:00:00', '2011-01-01 00:00:00', freq='H'):
\* 111 years with 27 leap days (1904..2008; 1900 is no leap year), both ends
\* included.
CalendarDays == 111 * 365 + 27
CalendarLen == CalendarDays * HoursPerDay + 1
NoDataThreshold == 1000
NoDataReplacement == 1
MilliPerMm == 10 ^ 3
RawScale == 36 * (10 ^ 4)

(***************************************************************************)
(* Arithmetic helpers.                                                     *)
(***************************************************************************)
Abs(x) == IF x < 0 THEN -x ELSE x

Min(a, b) == IF a < b THEN a ELSE b

Max(a, b) == IF a > b THEN a ELSE b

\* x / d rounded to the nearest integer, halves to the even neighbour, as
\* numpy.round does.  \div rounds towards minus infinity and % is in 0..d-1.
RoundHalfEvenDiv(x, d) ==
    LET q == x \div d
        r == x % d
    IN  IF 2 * r < d THEN q
        ELSE IF 2 * r > d THEN q + 1
        ELSE IF q % 2 = 0 THEN q ELSE q + 1

\* Python's s[a:b] for a, b >= 0: both ends are clamped to len(s); an empty
\* slice when a >= b.  The netCDF4 Variable slices the same way.
Slice(s, a, b) == SubSeq(s, Min(a, Len(s)) + 1, Min(b, Len(s)))

RECURSIVE SumSeq(_)
SumSeq(s) == IF s = << >> THEN 0 ELSE Head(s) + SumSeq(Tail(s))

(***************************************************************************)
(* The bounding-box resolver: (np.abs(coord - target)).argmin().           *)
(* numpy's argmin scans the array once and keeps an element only when it   *)
(* is strictly smaller than the best so far; indices are 0-based.          *)
(***************************************************************************)
RECURSIVE ArgMinScanLast(_, _, _, _)
ArgMinScanLast(coord, target, i, best) ==
    IF i > Len(coord) THEN best - 1
    ELSE IF Abs(coord[i] - target) <= Abs(coord[best] - target)
         THEN ArgMinScanLast(coord, target, i + 1, i)
         ELSE ArgMinScanLast(coord, target, i + 1, best)

RECURSIVE ArgMinScan(_, _, _, _)
ArgMinScan(coord, target, i, best) ==
    IF i > Len(coord) THEN best - 1
    ELSE IF Abs(coord[i] - target) < Abs(coord[best] - target)
         THEN ArgMinScan(coord, target, i + 1, i)
         ELSE ArgMinScan(coord, target, i + 1, best)

NearestIdxLast(coord, target) == ArgMinScanLast(coord, target, 2, 1)

NearestIdx(coord, target) == ArgMinScan(coord, target, 2, 1)

UpperIdxNoPlusOne(coord, target) == NearestIdx(coord, target)

\* "plus 1 to cover domain": the bound used for North and East.
UpperIdx(coord, target) == NearestIdx(coord, target) + 1

VARIABLES
    pc,            \* the script's position
    Lats, Lons,    \* coordinate arrays of the first file
    North, South, West, East,               \* the geographic box
    IdxNorth, IdxSouth, IdxWest, IdxEast,   \* the index window
    RawFiles,      \* the source grid of each file of FileNameList
    File,          \* loop counter of the clip / flatten / read loops
    ClipFiles,     \* the clipped grid written for each file, or NoFile
    CsvFiles,      \* the per-period table written for each file, or NoFile
    DfList,        \* tables the merger has read
    Mdf,           \* the merger's master table
    RawIndex,      \* history: Mdf's raw time index before its replacement
    Col,           \* loop counter of the repair loop
    OutFile,       \* the final merged table as written, or NoFile
    log            \* history: files written and read, in order

vars == << pc, Lats, Lons, North, South, West, East,
           IdxNorth, IdxSouth, IdxWest, IdxEast,
           RawFiles, File, ClipFiles, CsvFiles, DfList, Mdf, RawIndex,
           Col, OutFile, log >>

boxVars == << Lats, Lons, North, South, West, East >>
idxVars == << IdxNorth, IdxSouth, IdxWest, IdxEast >>
mergeVars == << DfList, Mdf, RawIndex, Col, OutFile >>

\* A file slot holds << >> (no such file) or << contents >>.
NoFile == << >>

NoTable == [index |-> << >>, data |-> << >>]


(***************************************************************************)
(* Inputs.  A grid dataset is a record of its time, lon and lat coordinate *)
(* arrays and of Rainf[time][lat][lon].  No-data cells are carried as the  *)
(* large raw value the source stores for them.                             *)
(***************************************************************************)
\* Raw Rainf values a cell may hold, in 1/RawScale kg m-2 s-1: converted
\* they are 0, 0.14, 0.15, 0.25, 0.26 and 12.34 mm (values around the
\* rounding ties), and +-3600 mm (no-data magnitudes).
RawSeq == << 0, 14, 15, 25, 26, 1234, 360000, -360000 >>

Seeds == 0 .. (Len(RawSeq) - 1)

\* The arrays of length 1..MaxLen over the coordinate values.
CoordArrays == UNION { [1 .. n -> 0 .. MaxCoord] : n \in 1 .. MaxLen }

IsAscending(s) == \A i \in 1 .. (Len(s) - 1) : s[i] < s[i + 1]

IsNonDecreasing(s) == \A i \in 1 .. (Len(s) - 1) : s[i] <= s[i + 1]

\* A regular axis of n cells, and the same axis stored north to south.
Axis(n) == [i \in 1 .. n |-> i - 1]

AxisDown(n) == [i \in 1 .. n |-> n - i]

TimeCoord(t0, T) == [i \in 1 .. T |-> t0 + i - 1]

\* The grid whose cells, in storage order, run through RawSeq from seed on.
MakeRainf(T, L, O, seed) ==
    [t \in 1 .. T |-> [la \in 1 .. L |-> [lo \in 1 .. O |->
        RawSeq[((seed + (t - 1) * L * O + (la - 1) * O + (lo - 1))
                % Len(RawSeq)) + 1] ]]]

MakeDataset(t0, T, lat, lon, seed) ==
    [time |-> TimeCoord(t0, T), lon |-> lon, lat |-> lat,
     Rainf |-> MakeRainf(T, Len(lat), Len(lon), seed)]

\* The first raw time a file may start at: the hours around the last
\* midnight of the reference calendar.
FirstStart == (CalendarLen - 1) - 3

Starts == { FirstStart + o : o \in 0 .. MaxOff }

(***************************************************************************)
(* WFDE5NetCDFClipper: the arrays it extracts and writes to the new file.  *)
(***************************************************************************)
\* The same with the latitude and longitude bounds exchanged.
ClipRainfTransposed(Rainf, w, e, n, s) ==
    [t \in 1 .. Len(Rainf) |->
        LET rows == Slice(Rainf[t], w, e)
        IN  [la \in 1 .. Len(rows) |-> Slice(rows[la], s, n)]]

\* FileRaw.variables['Rainf'][:,IdxSouth:IdxNorth,IdxWest:IdxEast]
ClipRainf(Rainf, w, e, n, s) ==
    [t \in 1 .. Len(Rainf) |->
        LET rows == Slice(Rainf[t], s, n)
        IN  [la \in 1 .. Len(rows) |-> Slice(rows[la], w, e)]]

WFDE5NetCDFClipper(FileRaw, w, e, n, s) ==
    [time  |-> FileRaw.time,
     lon   |-> Slice(FileRaw.lon, w, e),
     lat   |-> Slice(FileRaw.lat, s, n),
     Rainf |-> ClipRainf(FileRaw.Rainf, w, e, n, s)]

(***************************************************************************)
(* NetCDFToSHETRAN: the table it builds, writes and returns.               *)
(***************************************************************************)
\* VarTimeSeries * UnitConversion, then np.round(., 1); the result is in
\* thousandths of a millimetre (a multiple of 100).
Convert(raw) ==
    RoundHalfEvenDiv(raw * UnitConversion, RawScale \div 10)
        * (MilliPerMm \div 10)

\* The time series of one cell (1-based Lat, Lon), converted.
CellSeries(Data, Lat, Lon) ==
    [t \in 1 .. Len(Data.Rainf) |-> Convert(Data.Rainf[t][Lat][Lon])]

\* The inner loop: the cells of one latitude row, appended west to east.
RECURSIVE LonLoop(_, _, _)
LonLoop(Data, Lat, Lon) ==
    IF Lon > Len(Data.lon) THEN << >>
    ELSE << CellSeries(Data, Lat, Lon) >> \o LonLoop(Data, Lat, Lon + 1)

\* The outer loop over latitude rows.
RECURSIVE LatLoop(_, _)
LatLoop(Data, Lat) ==
    IF Lat > Len(Data.lat) THEN << >>
    ELSE LonLoop(Data, Lat, 1) \o LatLoop(Data, Lat + 1)

\* The same loops nested the other way round (longitude outer).
RECURSIVE LatInner(_, _, _)
LatInner(Data, Lat, Lon) ==
    IF Lat > Len(Data.lat) THEN << >>
    ELSE << CellSeries(Data, Lat, Lon) >> \o LatInner(Data, Lat + 1, Lon)

RECURSIVE LonOuter(_, _)
LonOuter(Data, Lon) ==
    IF Lon > Len(Data.lon) THEN << >>
    ELSE LatInner(Data, 1, Lon) \o LonOuter(Data, Lon + 1)

VarTimeSeriesCellsLonOuter(Data) == LonOuter(Data, 1)

VarTimeSeriesCells(Data) == LatLoop(Data, 1)

\* pd.DataFrame(data = cells).transpose(): one row per time step, one column
\* per cell; a frame built from an empty list has no rows and no columns.
FrameRows(cells) ==
    IF cells = << >> THEN << >>
    ELSE [t \in 1 .. Len(cells[1]) |-> [k \in 1 .. Len(cells) |-> cells[k][t]]]

\* Assigning the index raises ValueError unless its length is the frame's
\* row count.
FlattenOk(Data) == Len(FrameRows(VarTimeSeriesCells(Data))) = Len(Data.time)

NetCDFToSHETRAN(Data) ==
    [index |-> Data.time, data |-> FrameRows(VarTimeSeriesCells(Data))]


(***************************************************************************)
(* The merger: concatenation, sorting, the calendar index, daily sums and  *)
(* the no-data repair.                                                     *)
(***************************************************************************)
\* pd.concat(DfList): the rows of the tables stacked in list order.
RECURSIVE ConcatTables(_)
ConcatTables(list) ==
    IF list = << >> THEN NoTable
    ELSE LET rest == ConcatTables(Tail(list))
         IN  [index |-> Head(list).index \o rest.index,
              data  |-> Head(list).data \o rest.data]

\* Positions 1..Len(index) ordered by index value; rows with equal index
\* keep their order.
RECURSIVE InsertPos(_, _, _)
InsertPos(index, order, p) ==
    IF order = << >> THEN << p >>
    ELSE IF index[Head(order)] <= index[p]
         THEN << Head(order) >> \o InsertPos(index, Tail(order), p)
         ELSE << p >> \o order

RECURSIVE SortedOrder(_, _)
SortedOrder(index, n) ==
    IF n = 0 THEN << >>
    ELSE InsertPos(index, SortedOrder(index, n - 1), n)

\* Mdf.sort_index(ascending = True).  pandas promises no order among rows of
\* equal index; the sorted index is the same in every such order.
SortIndex(M) ==
    LET order == SortedOrder(M.index, Len(M.index))
    IN  [index |-> [i \in 1 .. Len(order) |-> M.index[order[i]]],
         data  |-> [i \in 1 .. Len(order) |-> M.data[order[i]]]]

\* DateIndex[a:b]: element p (0-based) of the hourly reference calendar is
\* the timestamp p hours after the epoch; the slice is clamped to the
\* calendar's length.
DateIndexSlice(a, b) ==
    LET lo == Min(a, CalendarLen)
        hi == Min(b, CalendarLen)
    IN  [i \in 1 .. (hi - lo) |-> lo + i - 1]

MdfStart(M) == M.index[1]

MdfEnd(M) == M.index[Len(M.index)] + 1

\* An assignment that relabels the rows from MdfStart on without validating
\* anything.
NewIndexUnchecked(M) ==
    [ok |-> TRUE,
     index |-> [i \in 1 .. Len(M.index) |-> MdfStart(M) + i - 1]]

\* Mdf.index = DateIndex[MdfStart:MdfEnd]: pandas raises ValueError (length
\* mismatch) unless the new index has one label per row.
NewIndex(M) ==
    LET subset == DateIndexSlice(MdfStart(M), MdfEnd(M))
    IN  [ok |-> Len(subset) = Len(M.index), index |-> subset]

Day(ts) == ts \div HoursPerDay

\* The sum of column c over the rows whose timestamp is on day d.
RECURSIVE DaySum(_, _, _, _)
DaySum(M, d, c, r) ==
    IF r > Len(M.index) THEN 0
    ELSE (IF Day(M.index[r]) = d THEN M.data[r][c] ELSE 0)
         + DaySum(M, d, c, r + 1)

\* A resampling that bins every HoursPerDay rows, counted from the first row.
ResampleByRowCount(M) ==
    LET n == Len(M.index)
        bins == (n + HoursPerDay - 1) \div HoursPerDay
        first == Day(M.index[1])
        ncols == Len(M.data[1])
    IN  [index |-> [k \in 1 .. bins |-> (first + k - 1) * HoursPerDay],
         data  |-> [k \in 1 .. bins |-> [c \in 1 .. ncols |->
                      SumSeq([j \in 1 .. Min(HoursPerDay,
                                             n - (k - 1) * HoursPerDay) |->
                              M.data[(k - 1) * HoursPerDay + j][c]])]]]

\* Mdf.resample('D').sum(): one row per calendar day from the first
\* timestamp's day to the last's, labelled with the day's midnight.
ResampleDaily(M) ==
    LET first == Day(M.index[1])
        last  == Day(M.index[Len(M.index)])
        ncols == Len(M.data[1])
    IN  [index |-> [k \in 1 .. (last - first + 1) |->
                      (first + k - 1) * HoursPerDay],
         data  |-> [k \in 1 .. (last - first + 1) |->
                      [c \in 1 .. ncols |-> DaySum(M, first + k - 1, c, 1)]]]

ReplacerOff(x) == x

\* Replacer = lambda x: 0.001 if x>1000 else x
Replacer(x) ==
    IF x > NoDataThreshold * MilliPerMm THEN NoDataReplacement ELSE x

\* Mdf[Col] = Mdf[Col].map(Replacer), Col counted from 1.
MapColumn(M, c) ==
    [M EXCEPT !.data = [r \in 1 .. Len(M.data) |->
                          [M.data[r] EXCEPT ![c] = Replacer(M.data[r][c])]]]


(***************************************************************************)
(* The script.                                                             *)
(***************************************************************************)
NFiles == Len(RawFiles)

Event(op, f) == [op |-> op, file |-> f]

\* A streaming pipeline: each file is flattened right after it is clipped.
AfterClipStreaming(i, n) == [pc |-> "flatten", File |-> i]

\* for File in FileNameList: the clip loop runs over every file before the
\* flatten loop starts.
AfterClip(i, n) ==
    IF i < n THEN [pc |-> "clip", File |-> i + 1]
    ELSE [pc |-> "flatten", File |-> 1]

AfterFlatten(i, n) ==
    IF i < n THEN [pc |-> "flatten", File |-> i + 1]
    ELSE [pc |-> "read", File |-> 1]

AfterRead(i, n) ==
    IF i < n THEN [pc |-> "read", File |-> i + 1]
    ELSE [pc |-> "concat", File |-> i]

\* Lines 84-104: the index window from the first file's coordinates.  (The
\* plot of lines 114-124 reads the first file and writes nothing.)
Resolve ==
    /\ pc = "resolve"
    /\ IdxNorth' = UpperIdx(Lats, North)
    /\ IdxSouth' = NearestIdx(Lats, South)
    /\ IdxWest' = NearestIdx(Lons, West)
    /\ IdxEast' = UpperIdx(Lons, East)
    /\ pc' = "clip"
    /\ File' = 1
    /\ UNCHANGED << boxVars, RawFiles, ClipFiles, CsvFiles, mergeVars, log >>

\* Lines 131-139, one iteration: clip one file and write the clipped grid.
ClipStep ==
    /\ pc = "clip"
    /\ ClipFiles' = [ClipFiles EXCEPT ![File] =
           << WFDE5NetCDFClipper(RawFiles[File],
                                 IdxWest, IdxEast, IdxNorth, IdxSouth) >>]
    /\ log' = Append(log, Event("clip", File))
    /\ pc' = AfterClip(File, NFiles).pc
    /\ File' = AfterClip(File, NFiles).File
    /\ UNCHANGED << boxVars, idxVars, RawFiles, CsvFiles, mergeVars >>

\* Lines 151-160, one iteration: open the clipped grid of one file, flatten
\* it and write the table.  Opening a file that is not there, or the frame's
\* index assignment failing, ends the run.  (Line 163 rescales the table
\* returned last in memory only; nothing reads it afterwards.)
FlattenStep ==
    /\ pc = "flatten"
    /\ IF ClipFiles[File] # NoFile /\ FlattenOk(ClipFiles[File][1])
       THEN /\ CsvFiles' = [CsvFiles EXCEPT ![File] =
                   << NetCDFToSHETRAN(ClipFiles[File][1]) >>]
            /\ log' = Append(log, Event("flatten", File))
            /\ pc' = AfterFlatten(File, NFiles).pc
            /\ File' = AfterFlatten(File, NFiles).File
       ELSE /\ pc' = "aborted"
            /\ UNCHANGED << CsvFiles, log, File >>
    /\ UNCHANGED << boxVars, idxVars, RawFiles, ClipFiles, mergeVars >>

\* Lines 175-178, one iteration: read one per-period table.
ReadStep ==
    /\ pc = "read"
    /\ DfList' = Append(DfList, CsvFiles[File][1])
    /\ log' = Append(log, Event("read", File))
    /\ pc' = AfterRead(File, Len(CsvFiles)).pc
    /\ File' = AfterRead(File, Len(CsvFiles)).File
    /\ UNCHANGED << boxVars, idxVars, RawFiles, ClipFiles, CsvFiles,
                    Mdf, RawIndex, Col, OutFile >>

\* Line 181
Concat ==
    /\ pc = "concat"
    /\ Mdf' = ConcatTables(DfList)
    /\ pc' = "sort"
    /\ UNCHANGED << boxVars, idxVars, RawFiles, File, ClipFiles, CsvFiles,
                    DfList, RawIndex, Col, OutFile, log >>

\* Line 182
Sort ==
    /\ pc = "sort"
    /\ Mdf' = SortIndex(Mdf)
    /\ RawIndex' = Mdf'.index
    /\ pc' = "setindex"
    /\ UNCHANGED << boxVars, idxVars, RawFiles, File, ClipFiles, CsvFiles,
                    DfList, Col, OutFile, log >>

\* Lines 185-192: the index assignment either relabels every row or raises.
SetIndex ==
    /\ pc = "setindex"
    /\ IF NewIndex(Mdf).ok
       THEN /\ Mdf' = [Mdf EXCEPT !.index = NewIndex(Mdf).index]
            /\ pc' = "resample"
       ELSE /\ pc' = "aborted"
            /\ UNCHANGED Mdf
    /\ UNCHANGED << boxVars, idxVars, RawFiles, File, ClipFiles, CsvFiles,
                    DfList, RawIndex, Col, OutFile, log >>

\* Line 195
Resample ==
    /\ pc = "resample"
    /\ Mdf' = ResampleDaily(Mdf)
    /\ Col' = 1
    /\ pc' = "repair"
    /\ UNCHANGED << boxVars, idxVars, RawFiles, File, ClipFiles, CsvFiles,
                    DfList, RawIndex, OutFile, log >>

\* Lines 199-200, one iteration: repair one column.
Repair ==
    /\ pc = "repair"
    /\ Mdf' = MapColumn(Mdf, Col)
    /\ Col' = Col + 1
    /\ pc' = IF Col < Len(Mdf.data[1]) THEN "repair" ELSE "write"
    /\ UNCHANGED << boxVars, idxVars, RawFiles, File, ClipFiles, CsvFiles,
                    DfList, RawIndex, OutFile, log >>

\* Line 203
Write ==
    /\ pc = "write"
    /\ OutFile' = << Mdf >>
    /\ log' = Append(log, Event("final", 0))
    /\ pc' = "done"
    /\ UNCHANGED << boxVars, idxVars, RawFiles, File, ClipFiles, CsvFiles,
                    DfList, Mdf, RawIndex, Col >>

(***************************************************************************)
(* Initial states.                                                         *)
(***************************************************************************)
Boxes == { b \in [N : 0 .. MaxCoord, S : 0 .. MaxCoord,
                  W : 0 .. MaxCoord, E : 0 .. MaxCoord] :
           b.S <= b.N /\ b.W <= b.E }

InitMergeVars ==
    /\ DfList = << >>
    /\ Mdf = NoTable
    /\ RawIndex = << >>
    /\ Col = 0
    /\ OutFile = NoFile

\* The resolver on every latitude array, every ascending longitude array and
\* every box.
InitResolver ==
    /\ pc = "resolve"
    /\ Lats \in CoordArrays
    /\ Lons \in { s \in CoordArrays : IsAscending(s) }
    /\ \E b \in Boxes :
          North = b.N /\ South = b.S /\ West = b.W /\ East = b.E
    /\ IdxNorth = 0 /\ IdxSouth = 0 /\ IdxWest = 0 /\ IdxEast = 0
    /\ RawFiles = << MakeDataset(FirstStart, 1, Lats, Lons, 0) >>
    /\ File = 0
    /\ ClipFiles = << NoFile >>
    /\ CsvFiles = << NoFile >>
    /\ InitMergeVars
    /\ log = << >>

NextResolver == Resolve

SpecResolver == InitResolver /\ [][NextResolver]_vars

\* The clipper, then the flattener, on one source grid of every shape and
\* every index window over 0..MaxIdx.
InitClipper ==
    /\ pc = "clip"
    /\ Lats \in { Axis(n) : n \in 1 .. MaxLen }
    /\ Lons \in { Axis(n) : n \in 1 .. MaxLen }
    /\ North = 0 /\ South = 0 /\ West = 0 /\ East = 0
    /\ IdxNorth \in 0 .. MaxIdx
    /\ IdxSouth \in 0 .. MaxIdx
    /\ IdxWest \in 0 .. MaxIdx
    /\ IdxEast \in 0 .. MaxIdx
    /\ \E T \in 1 .. MaxT, seed \in Seeds :
          RawFiles = << MakeDataset(FirstStart, T, Lats, Lons, seed) >>
    /\ File = 1
    /\ ClipFiles = << NoFile >>
    /\ CsvFiles = << NoFile >>
    /\ InitMergeVars
    /\ log = << >>

NextClipper == ClipStep \/ FlattenStep

SpecClipper == InitClipper /\ [][NextClipper]_vars

\* Hourly values a per-period table may hold, in thousandths of a
\* millimetre: 0, 600 and +-3600 mm.
HourlySeq == << 0, 600000, 3600000, -3600000 >>

\* The table of file k: T hourly rows from raw time start on, MaxCells
\* columns, its values running through HourlySeq.
MakeTable(start, T, k, seed) ==
    [index |-> TimeCoord(start, T),
     data  |-> [r \in 1 .. T |-> [c \in 1 .. MaxCells |->
                  HourlySeq[((seed + k + r + 2 * c) % Len(HourlySeq)) + 1]]]]

\* The merger on every batch of 1..MaxFiles per-period tables, each with its
\* own first raw time and length, in every order.
InitMerger ==
    /\ pc = "read"
    /\ Lats = << 0 >> /\ Lons = << 0 >>
    /\ North = 0 /\ South = 0 /\ West = 0 /\ East = 0
    /\ IdxNorth = 0 /\ IdxSouth = 0 /\ IdxWest = 0 /\ IdxEast = 0
    /\ RawFiles = << >>
    /\ File = 1
    /\ ClipFiles = << >>
    /\ \E n \in 1 .. MaxFiles, seed \in 0 .. (Len(HourlySeq) - 1) :
       \E st \in [1 .. n -> Starts], T \in [1 .. n -> 1 .. MaxT] :
          CsvFiles = [k \in 1 .. n |-> << MakeTable(st[k], T[k], k, seed) >>]
    /\ InitMergeVars
    /\ log = << >>

NextMerger ==
    ReadStep \/ Concat \/ Sort \/ SetIndex \/ Resample \/ Repair \/ Write

SpecMerger == InitMerger /\ [][NextMerger]_vars

\* The whole script on 1..MaxFiles files of one grid: a latitude axis stored
\* south to north or north to south, files of one length each starting at
\* its own raw time.
Init ==
    /\ pc = "resolve"
    /\ Lats \in { Axis(MaxLen), AxisDown(MaxLen) }
    /\ Lons = Axis(MaxLen - 1)
    /\ South = 0 /\ North = MaxCoord /\ West = 0
    /\ East \in { 0, MaxCoord }
    /\ IdxNorth = 0 /\ IdxSouth = 0 /\ IdxWest = 0 /\ IdxEast = 0
    /\ \E n \in 1 .. MaxFiles, T \in 1 .. MaxT, seed \in { 0, 5 } :
       \E st \in [1 .. n -> Starts] :
          RawFiles = [k \in 1 .. n |->
                        MakeDataset(st[k], T, Lats, Lons, seed + k)]
    /\ File = 0
    /\ ClipFiles = [k \in 1 .. Len(RawFiles) |-> NoFile]
    /\ CsvFiles = [k \in 1 .. Len(RawFiles) |-> NoFile]
    /\ InitMergeVars
    /\ log = << >>

Next ==
    \/ Resolve
    \/ ClipStep
    \/ FlattenStep
    \/ ReadStep
    \/ Concat
    \/ Sort
    \/ SetIndex
    \/ Resample
    \/ Repair
    \/ Write

Spec == Init /\ [][Next]_vars


(***************************************************************************)
(* Properties of the bounding-box resolver (SpecResolver).                 *)
(***************************************************************************)
Dist(coord, i, target) == Abs(coord[i + 1] - target)

\* i (0-based) is an index of coord nearest to target, and the first such.
IsFirstNearest(coord, target, i) ==
    /\ i \in 0 .. (Len(coord) - 1)
    /\ \A j \in 0 .. (Len(coord) - 1) :
          Dist(coord, i, target) <= Dist(coord, j, target)
    /\ \A j \in 0 .. (i - 1) :
          Dist(coord, j, target) > Dist(coord, i, target)

\* C1: for every non-empty coordinate array and every target bound, the
\* index the resolver returns (before the +1 of the north and east bounds)
\* is an index of minimal |coord[i] - target|, and the smallest such index.
C1_NearestFirstIndex ==
    pc = "clip" =>
        /\ IsFirstNearest(Lats, South, IdxSouth)
        /\ IsFirstNearest(Lats, North, IdxNorth - 1)
        /\ IsFirstNearest(Lons, West, IdxWest)
        /\ IsFirstNearest(Lons, East, IdxEast - 1)

\* The resolver has run on a latitude array in which two elements are
\* equally near to South and nearest, and it returned the first of them.
C1_Witness ==
    /\ pc = "clip"
    /\ \E j \in 0 .. (Len(Lats) - 1) :
          /\ j > IdxSouth
          /\ Dist(Lats, j, South) = Dist(Lats, IdxSouth, South)

\* C7 as stated: for every non-empty lat and lon array and every box with
\* South <= North and West <= East, IdxSouth <= IdxNorth, IdxWest <= IdxEast
\* and each of the four bounds lies in [0, length of its array).
C7_WindowOrderedAndBelowLength ==
    pc = "clip" =>
        /\ IdxSouth <= IdxNorth
        /\ IdxWest <= IdxEast
        /\ IdxSouth \in 0 .. (Len(Lats) - 1)
        /\ IdxNorth \in 0 .. (Len(Lats) - 1)
        /\ IdxWest \in 0 .. (Len(Lons) - 1)
        /\ IdxEast \in 0 .. (Len(Lons) - 1)

\* C7 amended: IdxSouth and IdxWest lie in [0, length), IdxNorth and IdxEast
\* lie in [1, length] (they reach length when the nearest element is the
\* last), and on a coordinate array in non-decreasing order the lower bound
\* is at most the upper bound.
C7_WindowBounds ==
    pc = "clip" =>
        /\ IdxSouth \in 0 .. (Len(Lats) - 1)
        /\ IdxNorth \in 1 .. Len(Lats)
        /\ IdxWest \in 0 .. (Len(Lons) - 1)
        /\ IdxEast \in 1 .. Len(Lons)
        /\ IsNonDecreasing(Lats) => IdxSouth <= IdxNorth
        /\ IsNonDecreasing(Lons) => IdxWest <= IdxEast

\* The resolver has run on an ascending latitude array of several elements
\* whose last element is the nearest to North: the north bound is the
\* array's length.
C7_Witness ==
    /\ pc = "clip"
    /\ Len(Lats) > 1
    /\ IsAscending(Lats)
    /\ IdxNorth = Len(Lats)
    /\ IdxSouth < IdxNorth

(***************************************************************************)
(* Properties of the clipper and the flattener (SpecClipper).              *)
(***************************************************************************)
Clipped == ClipFiles[1][1]

Source == RawFiles[1]

\* The length of Python's s[a:b] on a sequence of length len, a, b >= 0.
SliceLen(len, a, b) == Max(0, Min(b, len) - Min(a, len))

\* The clipped file holds the source's time coordinate, and lon, lat and
\* Rainf of the given lengths that repeat the source from the window's west
\* and south bounds on, element for element.
ClipIsWindow(lonLen, latLen) ==
    /\ Clipped.time = Source.time
    /\ Len(Clipped.lon) = lonLen
    /\ Len(Clipped.lat) = latLen
    /\ \A i \in 1 .. lonLen : Clipped.lon[i] = Source.lon[IdxWest + i]
    /\ \A i \in 1 .. latLen : Clipped.lat[i] = Source.lat[IdxSouth + i]
    /\ Len(Clipped.Rainf) = Len(Source.Rainf)
    /\ \A t \in 1 .. Len(Source.Rainf) :
          /\ Len(Clipped.Rainf[t]) = latLen
          /\ \A la \in 1 .. latLen :
                /\ Len(Clipped.Rainf[t][la]) = lonLen
                /\ \A lo \in 1 .. lonLen :
                      Clipped.Rainf[t][la][lo] =
                          Source.Rainf[t][IdxSouth + la][IdxWest + lo]

\* C2 as stated: for every source grid and every index window the clipper
\* writes a dataset with the full time coordinate, lon of length east-west
\* equal to lon[west:east], lat of length north-south equal to
\* lat[south:north], and Rainf equal to Rainf[:, south:north, west:east].
C2_ClipLengthsAreDifferences ==
    ClipFiles[1] # NoFile =>
        ClipIsWindow(IdxEast - IdxWest, IdxNorth - IdxSouth)

\* C2 amended: the same, with the lengths of Python's slices: lon has length
\* max(0, min(east, len(lon)) - min(west, len(lon))) and lat has length
\* max(0, min(north, len(lat)) - min(south, len(lat))), which are east-west
\* and north-south when the window is ordered and inside the grid.
C2_ClipIsSlice ==
    ClipFiles[1] # NoFile =>
        ClipIsWindow(SliceLen(Len(Source.lon), IdxWest, IdxEast),
                     SliceLen(Len(Source.lat), IdxSouth, IdxNorth))

\* A grid of two time steps has been clipped to a window that is inside it,
\* starts past its first row and column, and is not square.
C2_Witness ==
    /\ ClipFiles[1] # NoFile
    /\ Len(Source.time) = 2
    /\ 0 < IdxWest /\ IdxWest < IdxEast /\ IdxEast <= Len(Source.lon)
    /\ 0 < IdxSouth /\ IdxSouth < IdxNorth /\ IdxNorth <= Len(Source.lat)
    /\ Len(Clipped.lon) = IdxEast - IdxWest
    /\ Len(Clipped.lat) = IdxNorth - IdxSouth
    /\ IdxEast - IdxWest # IdxNorth - IdxSouth

\* C6: the clipper fails, and produces no clipped dataset, whenever the
\* window exceeds the source's dimensions (east > len(lon) or
\* north > len(lat)).
C6_OversizedWindowRejected ==
    (IdxEast > Len(Source.lon) \/ IdxNorth > Len(Source.lat)) =>
        ClipFiles[1] = NoFile

FlattenDone == pc \in { "read", "aborted" }

Table == CsvFiles[1][1]

\* The table has one row per time step, indexed by the raw time coordinate,
\* and one column per cell; column k (0-based) is the converted series of
\* the cell at latitude index k div O and longitude index k mod O.
TableIsRowMajor ==
    LET O == Len(Clipped.lon)
        L == Len(Clipped.lat)
    IN  /\ Table.index = Clipped.time
        /\ Len(Table.data) = Len(Clipped.time)
        /\ \A t \in 1 .. Len(Clipped.time) :
              /\ Len(Table.data[t]) = L * O
              /\ \A k \in 0 .. (L * O - 1) :
                    Table.data[t][k + 1] =
                        Convert(Clipped.Rainf[t][(k \div O) + 1][(k % O) + 1])

\* C3 as stated: for every grid with T time steps, L latitudes and O
\* longitudes the flattener returns and writes a table of T rows indexed by
\* the raw time coordinate and L*O columns, column k holding the series of
\* cell (k div O, k mod O).
C3_EveryGridFlattens ==
    FlattenDone => (CsvFiles[1] # NoFile /\ TableIsRowMajor)

\* C3 amended: the same for every grid with at least one latitude and one
\* longitude; on a grid without cells and with T >= 1 the index assignment
\* raises and no table is written.
C3_NonEmptyGridFlattens ==
    /\ (FlattenDone /\ Len(Clipped.lat) >= 1 /\ Len(Clipped.lon) >= 1)
          => (CsvFiles[1] # NoFile /\ TableIsRowMajor)
    /\ (FlattenDone /\ CsvFiles[1] # NoFile) => TableIsRowMajor

\* A grid of two time steps, two latitudes and two or more longitudes has
\* been flattened.
C3_Witness ==
    /\ pc = "read"
    /\ CsvFiles[1] # NoFile
    /\ Len(Clipped.time) = 2
    /\ Len(Clipped.lat) = 2
    /\ Len(Clipped.lon) >= 2
    /\ Len(Table.data[1]) = 2 * Len(Clipped.lon)


(***************************************************************************)
(* Properties of the merger (SpecMerger).                                  *)
(***************************************************************************)
Batch == [k \in 1 .. Len(CsvFiles) |-> CsvFiles[k][1]]

BatchRows == SumSeq([k \in 1 .. Len(Batch) |-> Len(Batch[k].index)])

BatchTimes ==
    UNION { { Batch[k].index[r] : r \in 1 .. Len(Batch[k].index) } :
            k \in 1 .. Len(Batch) }

FirstRaw == CHOOSE t \in BatchTimes : \A u \in BatchTimes : t <= u

LastRaw == CHOOSE t \in BatchTimes : \A u \in BatchTimes : u <= t

\* The tables' raw time ranges do not overlap and leave no gap.
ContiguousBatch ==
    /\ Cardinality(BatchTimes) = BatchRows
    /\ LastRaw - FirstRaw + 1 = BatchRows

\* The sum of column c over every hourly row of the batch whose raw time is
\* on day d.
BatchDaySum(d, c) ==
    SumSeq([k \in 1 .. Len(Batch) |->
        SumSeq([r \in 1 .. Len(Batch[k].index) |->
            IF Day(Batch[k].index[r]) = d THEN Batch[k].data[r][c] ELSE 0])])

\* The hourly table with its calendar index, and its daily sums, as the
\* merger computes them from the tables it read.
HourlyTable ==
    LET S == SortIndex(ConcatTables(DfList))
    IN  [S EXCEPT !.index = NewIndex(S).index]

DailySums == ResampleDaily(HourlyTable).data

Threshold == NoDataThreshold * MilliPerMm

Written == OutFile[1]

\* C4 as stated: in the final merged table every value whose magnitude
\* exceeds 1000, positive or negative, has been replaced by 0.001: every
\* written value v has |v| <= 1000.
C4_NoMagnitudeAboveThreshold ==
    OutFile # NoFile =>
        \A r \in 1 .. Len(Written.data) :
            \A c \in 1 .. Len(Written.data[r]) :
                Abs(Written.data[r][c]) <= Threshold

\* C4 amended: in the final merged table every daily sum greater than 1000
\* has been replaced by exactly 0.001 and every other daily sum is written
\* unchanged, so every written value v has v <= 1000 (sums below -1000 are
\* written as they are).
C4_PositiveNoDataRepaired ==
    OutFile # NoFile =>
        /\ Len(Written.data) = Len(DailySums)
        /\ \A r \in 1 .. Len(Written.data) :
              /\ Len(Written.data[r]) = Len(DailySums[r])
              /\ \A c \in 1 .. Len(Written.data[r]) :
                    /\ Written.data[r][c] <= Threshold
                    /\ DailySums[r][c] > Threshold
                          => Written.data[r][c] = NoDataReplacement
                    /\ DailySums[r][c] <= Threshold
                          => Written.data[r][c] = DailySums[r][c]

\* A table has been written in which one daily sum was above 1000 and was
\* replaced, and another one was not above 1000 and was kept.
C4_Witness ==
    /\ OutFile # NoFile
    /\ \E r \in 1 .. Len(Written.data) :
       \E c \in 1 .. Len(Written.data[r]) :
          /\ DailySums[r][c] > Threshold
          /\ Written.data[r][c] = NoDataReplacement
    /\ \E r \in 1 .. Len(Written.data) :
       \E c \in 1 .. Len(Written.data[r]) :
          /\ DailySums[r][c] <= Threshold
          /\ DailySums[r][c] # 0
          /\ Written.data[r][c] = DailySums[r][c]

\* The row count of the sorted table differs from the length of the
\* calendar subset DateIndex[first raw time : last raw time + 1].
RowCountMismatch ==
    Len(RawIndex) #
        SliceLen(CalendarLen, RawIndex[1], RawIndex[Len(RawIndex)] + 1)

\* C5: if the row count of the concatenated, sorted table differs from the
\* length of the calendar subset, the merger aborts at the index assignment
\* and the final table is not written.
C5_MismatchAborts ==
    (RawIndex # << >> /\ RowCountMismatch) =>
        (pc \in { "setindex", "aborted" } /\ OutFile = NoFile)

\* The merger has aborted on a batch whose row count differs from the length
\* of its calendar subset.
C5_Witness ==
    /\ pc = "aborted"
    /\ RawIndex # << >>
    /\ RowCountMismatch
    /\ OutFile = NoFile

\* C10: whenever the merger gets past the index replacement, every hourly
\* row that carried raw time value N is labelled with the timestamp N hours
\* after the epoch, for every batch, with gaps and overlaps too.
C10_LabelIsRawTime ==
    pc = "resample" =>
        \A i \in 1 .. Len(Mdf.index) : Mdf.index[i] = RawIndex[i]

\* After the index assignment the hourly index starts at the first raw time
\* and advances by one hour per row; after the resampling there is one row
\* per calendar day from the first to the last raw time's day, labelled with
\* the day's midnight, each value the sum of the batch's hourly values of
\* that day and column.
MergedHourlyThenDaily ==
    /\ pc # "aborted"
    /\ pc = "resample" =>
          /\ Len(Mdf.index) = BatchRows
          /\ \A i \in 1 .. Len(Mdf.index) : Mdf.index[i] = FirstRaw + i - 1
    /\ (pc = "repair" /\ Col = 1) =>
          LET days == Day(LastRaw) - Day(FirstRaw) + 1
          IN  /\ Len(Mdf.index) = days
              /\ Len(Mdf.data) = days
              /\ \A k \in 1 .. days :
                    /\ Mdf.index[k] = (Day(FirstRaw) + k - 1) * HoursPerDay
                    /\ Len(Mdf.data[k]) = MaxCells
                    /\ \A c \in 1 .. MaxCells :
                          Mdf.data[k][c] =
                              BatchDaySum(Day(FirstRaw) + k - 1, c)

\* C8 as stated: merging per-period hourly tables whose raw time ranges are
\* contiguous and non-overlapping produces a table whose calendar index
\* advances by one hour per row, and after daily resampling one row per
\* calendar day spanned, each value the sum of that day's hourly values.
C8_ContiguousBatchMerges ==
    ContiguousBatch => MergedHourlyThenDaily

\* C8 amended: the same for contiguous, non-overlapping tables whose raw
\* time values all lie in the reference calendar, 0 .. 973008 (1900-01-01
\* 00:00 to 2011-01-01 00:00); past it the index assignment raises.
C8_ContiguousBatchInCalendarMerges ==
    (ContiguousBatch /\ FirstRaw >= 0 /\ LastRaw < CalendarLen)
        => MergedHourlyThenDaily

\* Two or more contiguous tables that span two calendar days have been
\* merged and resampled to two daily rows.
C8_Witness ==
    /\ pc = "repair" /\ Col = 1
    /\ ContiguousBatch
    /\ Len(Batch) >= 2
    /\ BatchRows >= 3
    /\ Day(FirstRaw) < Day(LastRaw)
    /\ Len(Mdf.index) = 2

(***************************************************************************)
(* Properties of the whole script (Spec).                                  *)
(***************************************************************************)
Logged(op, f, before) == \E q \in 1 .. (before - 1) : log[q] = Event(op, f)

StageRank(op) ==
    CASE op = "clip" -> 1
      [] op = "flatten" -> 2
      [] op = "read" -> 3
      [] op = "final" -> 4

\* C9: the stages are strictly ordered: every period's clipped grid is
\* written before any period is flattened, every period's table is written
\* before the merger reads any table, within a stage period i is done before
\* period i+1, and the final merged table is written last.
C9_StagesInOrder ==
    /\ \A p \in 1 .. Len(log) :
          /\ log[p].op = "flatten" =>
                \A f \in 1 .. NFiles : Logged("clip", f, p)
          /\ log[p].op = "read" =>
                \A f \in 1 .. NFiles : Logged("flatten", f, p)
          /\ log[p].op = "final" =>
                /\ p = Len(log)
                /\ \A f \in 1 .. NFiles : Logged("read", f, p)
          /\ \A q \in (p + 1) .. Len(log) :
                \/ StageRank(log[p].op) < StageRank(log[q].op)
                \/ /\ log[p].op = log[q].op
                   /\ log[p].file < log[q].file
    /\ \A f \in 1 .. NFiles :
          /\ ClipFiles[f] # NoFile <=> Logged("clip", f, Len(log) + 1)
          /\ CsvFiles[f] # NoFile <=> Logged("flatten", f, Len(log) + 1)
          /\ CsvFiles[f] # NoFile => \A g \in 1 .. NFiles : ClipFiles[g] # NoFile
    /\ DfList # << >> => \A f \in 1 .. NFiles : CsvFiles[f] # NoFile
    /\ OutFile # NoFile <=> Logged("final", 0, Len(log) + 1)

\* A run over three files has written its final table.
C9_Witness ==
    /\ pc = "done"
    /\ NFiles = 3
    /\ OutFile # NoFile
    /\ Len(log) = 3 * NFiles + 1

=============================================================================
